---------------------------- MODULE Spec2Model ----------------------------
(***************************************************************************)
(* Model of sar_doppler.managers.DatasetManager.get_or_create              *)
(* (src/sar_doppler/managers.py, Python 2: "/" on integers is floor        *)
(* division).                                                              *)
(*                                                                         *)
(* Spec models the control flow of get_or_create over repeated runs:       *)
(* the footprint check and save, the five-subswath loops, the bands each   *)
(* loop reads and adds, the exceptions a missing band raises, the          *)
(* is_corrupted flag and the returned pair.  The numerical phases are      *)
(* pure functions of their inputs and are exercised on their own:          *)
(*   SpecRef     reference subswath selection      (lines 201-227)         *)
(*   SpecBias    dc_offset and the corrected band  (lines 228-231, 254-259)*)
(*   SpecJump    jump accumulation and correction  (lines 240-259)         *)
(*   SpecStride  border sampling strides           (lines 72-85)           *)
(*   SpecBorder  the stitched footprint ring       (lines 70-108)          *)
(***************************************************************************)
EXTENDS Integers, Sequences, FiniteSets, TLC

VARIABLES
    \* ---- control flow of get_or_create (Spec) ----
    pc,                \* position in get_or_create
    i,                 \* loop variable i
    runs,              \* number of calls of get_or_create started so far
    reprocess,         \* argument reprocess
    geometry,          \* ds.geographic_location.geometry as stored
    new_geometry,      \* new_geometry (stitched polygon) of the current run
    geometry_before,   \* history: stored geometry when the current run started
    geoloc_saved,      \* history: geoloc.save() was called in the current run
    bands,             \* bands added to swath_data[i] by the current run
    ncep,              \* the catalog holds an NCEP-GFS dataset within 3 hours
    wind,              \* truth value of the wind queryset
    is_corrupted,      \* local variable is_corrupted
    corrupted_doppler, \* history: subswaths marked corrupted at lines 132-135
    corrupted_export,  \* history: subswaths marked corrupted at lines 304-310
    touched,           \* history: <<step, subswath>> operated on after line 197
    exported,          \* subswaths written by swath_data[i].export
    i_ref,             \* i_ref
    ret_flag,          \* second element of the returned pair
    \* ---- reference selection, lines 201-227 (SpecRef) ----
    valid_land_doppler,   \* band valid_land_doppler of each subswath
    numberOfLandPixels,   \* array numberOfLandPixels
    i_ref_first,          \* history: i_ref as left by lines 211-214
    \* ---- bias offset and corrected band, lines 228-259 (SpecBias) ----
    land_ref,          \* band valid_land_doppler of subswath i_ref
    dc_std_ref,        \* band dc_std of subswath i_ref
    raw_ref,           \* band raw_fdg of subswath i_ref
    retained,          \* history: land pixels with dc_std <= std_thres (line 231)
    dc_offset,         \* dc_offset
    raw_fdg,           \* swath_data[i]['raw_fdg'] as read at line 255
    jump,              \* fdg_jumps[i] as read at line 255
    fdg,               \* array fdg of line 255
    \* ---- jump accumulation, lines 240-259 (SpecJump) ----
    raw_level,         \* value of the (uniform) raw_fdg field of each subswath
    jump_est,          \* history: the per-pair estimates of line 249
    fdg_jumps,         \* array fdg_jumps
    fdg_level,         \* value of the corrected (uniform) fdg field
    \* ---- footprint border, lines 68-108 (SpecStride, SpecBorder) ----
    lon_shape,         \* lon[i].shape of each subswath
    astep,             \* astep
    rstep,             \* rstep
    lons,              \* grid points behind the vertices of lons
    lats               \* grid points behind the vertices of lats

pipeData == <<runs, reprocess, geometry, new_geometry, geometry_before,
              geoloc_saved, bands, ncep, wind, is_corrupted, corrupted_doppler,
              corrupted_export, touched, exported, ret_flag>>
refData == <<valid_land_doppler, numberOfLandPixels, i_ref_first>>
biasData == <<land_ref, dc_std_ref, raw_ref, retained, raw_fdg, jump, fdg>>
jumpData == <<raw_level, jump_est, fdg_jumps, fdg_level>>
borderData == <<lon_shape, astep, rstep, lons, lats>>

\* what the control-flow actions leave alone
numData == <<refData, biasData, dc_offset, jumpData, borderData>>

vars == <<pc, i, i_ref, pipeData, refData, biasData, dc_offset, jumpData,
          borderData>>

----------------------------------------------------------------------------
(* Program constants and bounds *)

n_subswaths == 5
MaxCell == 2
MaxRuns == 2

Swaths == 0 .. (n_subswaths - 1)

\* A polygon is the set of cells it covers; its area is their number.
Polygons == SUBSET (1 .. MaxCell)
Area(p) == Cardinality(p)

----------------------------------------------------------------------------
(* Numbers.  A float is NaN or an exact rational num/den in lowest terms   *)
(* (den > 0); rounding is not modelled.                                    *)

NaN == [nan |-> TRUE, num |-> 0, den |-> 1]
F(n) == [nan |-> FALSE, num |-> n, den |-> 1]
IsNaN(x) == x.nan

Abs(n) == IF n < 0 THEN -n ELSE n
Max(a, b) == IF a >= b THEN a ELSE b

RECURSIVE Gcd(_, _)
Gcd(a, b) == IF b = 0 THEN a ELSE Gcd(b, a % b)

Ratio(n, d) ==
    LET g == Gcd(Abs(n), d)
    IN  [nan |-> FALSE, num |-> n \div g, den |-> d \div g]

\* a - b on floats: NaN if either operand is NaN
Sub(a, b) ==
    IF a.nan \/ b.nan
        THEN NaN
        ELSE Ratio(a.num * b.den - b.num * a.den, a.den * b.den)

RECURSIVE SumSeq(_)
SumSeq(s) == IF s = <<>> THEN 0 ELSE Head(s) + SumSeq(Tail(s))

Reverse(s) == [k \in 1 .. Len(s) |-> s[Len(s) + 1 - k]]

----------------------------------------------------------------------------
(* States of the parts a specification does not exercise *)

Zeros == [s \in Swaths |-> 0]

PipeIdle ==
    /\ runs = 0
    /\ reprocess = FALSE
    /\ geometry = {}
    /\ new_geometry = {}
    /\ geometry_before = {}
    /\ geoloc_saved = FALSE
    /\ bands = [s \in Swaths |-> {}]
    /\ ncep = FALSE
    /\ wind = FALSE
    /\ is_corrupted = FALSE
    /\ corrupted_doppler = {}
    /\ corrupted_export = {}
    /\ touched = {}
    /\ exported = {}
    /\ ret_flag = FALSE

RefIdle ==
    /\ valid_land_doppler = <<>>
    /\ numberOfLandPixels = Zeros
    /\ i_ref_first = 0

BiasIdle ==
    /\ land_ref = <<>>
    /\ dc_std_ref = <<>>
    /\ raw_ref = <<>>
    /\ retained = <<>>
    /\ raw_fdg = <<>>
    /\ jump = 0
    /\ fdg = <<>>

JumpIdle ==
    /\ raw_level = Zeros
    /\ jump_est = Zeros
    /\ fdg_jumps = Zeros
    /\ fdg_level = <<>>

BorderIdle ==
    /\ lon_shape = <<>>
    /\ astep = <<>>
    /\ rstep = <<>>
    /\ lons = <<>>
    /\ lats = <<>>

----------------------------------------------------------------------------
(* Control flow of get_or_create *)

Ended == {"returned_early", "returned", "raised"}

\* swath_data[s][name] for a band the run adds: raises when it was not added.
HasBand(s, name) == name \in bands[s]

\* line 45: the stored footprint already covers more than subswath 0
AlreadyCovered(stored, gg, rp) == Area(stored) > Area(gg) /\ ~rp

\* line 113: return if the geometry is the same as the stored one
SameAndNoReprocess(stored, new, rp) == stored = new /\ ~rp

\* a save on every run that gets past line 113
NeedsSave_always(stored, new) == TRUE

\* line 116: the guard of geoloc.save()
NeedsSave(stored, new) == stored /= new

\* lines 129-135: is_corrupted after one iteration of the Doppler loop
FlagAfterDoppler(flag, readable) == ~readable

\* the export loop resetting the flag at every iteration, as lines 129-135 do
FlagAfterExport_reset(flag, readable) == ~readable

\* lines 304-310: is_corrupted after one iteration of the export loop
FlagAfterExport(flag, readable) == IF readable THEN flag ELSE TRUE

\* bands added by lines 137-197
DopplerBands(w) ==
    {"anomaly", "raw_Ur", "raw_fdg", "corrected_sigma0"}
        \cup (IF w THEN {"fww"} ELSE {})

NextIndex(next_pc) ==
    IF i + 1 < n_subswaths
        THEN /\ i' = i + 1
             /\ pc' = pc
        ELSE /\ i' = 0
             /\ pc' = next_pc

\* lines 31-46
Start ==
    /\ pc \in {"idle"} \cup Ended
    /\ runs < MaxRuns
    /\ runs' = runs + 1
    /\ \E is_dataset \in BOOLEAN, rp \in BOOLEAN, gg \in Polygons,
          w \in BOOLEAN :
        /\ reprocess' = rp
        /\ ncep' = w
        /\ pc' = IF ~is_dataset \/ AlreadyCovered(geometry, gg, rp)
                    THEN "returned_early" ELSE "stitch"
    /\ ret_flag' = FALSE
    /\ geometry_before' = geometry
    /\ geoloc_saved' = FALSE
    /\ new_geometry' = {}
    /\ bands' = [s \in Swaths |-> {}]
    /\ is_corrupted' = FALSE
    /\ corrupted_doppler' = {}
    /\ corrupted_export' = {}
    /\ touched' = {}
    /\ exported' = {}
    /\ i_ref' = 0
    /\ i' = 0
    /\ wind' = FALSE
    /\ UNCHANGED geometry
    /\ UNCHANGED numData

\* lines 54-108: read the five subswaths and stitch the footprint polygon
Stitch ==
    /\ pc = "stitch"
    /\ \E ng \in Polygons : new_geometry' = ng
    /\ pc' = "check_geometry"
    /\ UNCHANGED numData
    /\ UNCHANGED <<i, runs, reprocess, geometry, geometry_before, geoloc_saved,
                   bands, ncep, wind, is_corrupted, corrupted_doppler,
                   corrupted_export, touched, exported, i_ref, ret_flag>>

\* lines 110-119
CheckGeometry ==
    /\ pc = "check_geometry"
    /\ IF SameAndNoReprocess(geometry, new_geometry, reprocess)
          THEN /\ pc' = "returned_early"
               /\ ret_flag' = FALSE
               /\ UNCHANGED <<geometry, geoloc_saved>>
          ELSE /\ pc' = "doppler"
               /\ IF NeedsSave(geometry, new_geometry)
                     THEN /\ geometry' = new_geometry
                          /\ geoloc_saved' = TRUE
                     ELSE UNCHANGED <<geometry, geoloc_saved>>
               /\ UNCHANGED ret_flag
    /\ i' = 0
    /\ UNCHANGED numData
    /\ UNCHANGED <<runs, reprocess, new_geometry, geometry_before, bands, ncep, wind,
                   is_corrupted, corrupted_doppler, corrupted_export, touched,
                   exported, i_ref>>

\* lines 128-197, one iteration
Doppler ==
    /\ pc = "doppler"
    /\ \E readable \in BOOLEAN :
        /\ is_corrupted' = FlagAfterDoppler(is_corrupted, readable)
        /\ IF readable
              THEN /\ bands' = [bands EXCEPT ![i] = @ \cup DopplerBands(ncep)]
                   /\ wind' = ncep
                   /\ UNCHANGED corrupted_doppler
              ELSE /\ corrupted_doppler' = corrupted_doppler \cup {i}
                   /\ UNCHANGED <<bands, wind>>
    /\ NextIndex("land1")
    /\ UNCHANGED numData
    /\ UNCHANGED <<runs, reprocess, geometry, new_geometry, geometry_before,
                   geoloc_saved, ncep, corrupted_export, touched, exported,
                   i_ref, ret_flag>>

\* lines 202-210, one iteration: the land pixels of subswath i are counted,
\* then its raw_fdg band is read
Land1 ==
    /\ pc = "land1"
    /\ touched' = touched \cup {<<"land_count", i>>}
    /\ IF HasBand(i, "raw_fdg")
          THEN NextIndex("ref1")
          ELSE /\ pc' = "raised"
               /\ UNCHANGED i
    /\ UNCHANGED numData
    /\ UNCHANGED <<runs, reprocess, geometry, new_geometry, geometry_before,
                   geoloc_saved, bands, ncep, wind, is_corrupted, corrupted_doppler,
                   corrupted_export, exported, i_ref, ret_flag>>

\* lines 211-218: i_ref is selected and its bands are read.  The land-pixel
\* counts are not part of this state, so i_ref may be any index here; its
\* value is SelectRef of the counts, and dc_offset is DcOffset.
Ref1 ==
    /\ pc = "ref1"
    /\ \E r \in Swaths :
        /\ i_ref' = r
        /\ touched' = touched \cup {<<"reference", r>>}
        /\ pc' = IF HasBand(r, "raw_fdg") THEN "land2" ELSE "raised"
    /\ UNCHANGED numData
    /\ UNCHANGED <<i, runs, reprocess, geometry, new_geometry, geometry_before,
                   geoloc_saved, bands, ncep, wind, is_corrupted, corrupted_doppler,
                   corrupted_export, exported, ret_flag>>

\* lines 221-231: the same selection again, from the same bands
Land2 ==
    /\ pc = "land2"
    /\ touched' = touched \cup {<<"land_count", s>> : s \in Swaths}
                          \cup {<<"reference", i_ref>>}
    /\ pc' = IF HasBand(i_ref, "raw_fdg") THEN "geocode" ELSE "raised"
    /\ UNCHANGED numData
    /\ UNCHANGED <<i, runs, reprocess, geometry, new_geometry, geometry_before,
                   geoloc_saved, bands, ncep, wind, is_corrupted, corrupted_doppler,
                   corrupted_export, exported, i_ref, ret_flag>>

\* lines 237-239, one iteration
Geocode ==
    /\ pc = "geocode"
    /\ touched' = touched \cup {<<"geocode", i>>}
    /\ IF HasBand(i, "raw_fdg")
          THEN IF i + 1 < n_subswaths
                  THEN /\ i' = i + 1
                       /\ pc' = pc
                  ELSE /\ i' = 1
                       /\ pc' = "jumps"
          ELSE /\ pc' = "raised"
               /\ UNCHANGED i
    /\ UNCHANGED numData
    /\ UNCHANGED <<runs, reprocess, geometry, new_geometry, geometry_before,
                   geoloc_saved, bands, ncep, wind, is_corrupted, corrupted_doppler,
                   corrupted_export, exported, i_ref, ret_flag>>

\* lines 241-251, one iteration for the pair (i-1, i); np.histogram raises
\* on bins = int(0 ** 0.5) when the pair has no finite overlap sample
Jumps ==
    /\ pc = "jumps"
    /\ touched' = touched \cup {<<"jump", i - 1>>, <<"jump", i>>}
    /\ \E overlap_empty \in BOOLEAN :
        IF overlap_empty
           THEN /\ pc' = "raised"
                /\ UNCHANGED i
           ELSE NextIndex("correct")
    /\ UNCHANGED numData
    /\ UNCHANGED <<runs, reprocess, geometry, new_geometry, geometry_before,
                   geoloc_saved, bands, ncep, wind, is_corrupted, corrupted_doppler,
                   corrupted_export, exported, i_ref, ret_flag>>

\* lines 254-268, one iteration
Correct ==
    /\ pc = "correct"
    /\ touched' = touched \cup {<<"correct", i>>}
    /\ IF HasBand(i, "raw_fdg")
          THEN /\ bands' = [bands EXCEPT ![i] = @ \cup {"fdg", "Ur"}]
               /\ NextIndex("export")
          ELSE /\ pc' = "raised"
               /\ UNCHANGED <<i, bands>>
    /\ UNCHANGED numData
    /\ UNCHANGED <<runs, reprocess, geometry, new_geometry, geometry_before,
                   geoloc_saved, ncep, wind, is_corrupted, corrupted_doppler,
                   corrupted_export, exported, i_ref, ret_flag>>

\* lines 271-357, one iteration
Export ==
    /\ pc = "export"
    /\ touched' = touched \cup {<<"export", i>>}
    /\ exported' = exported \cup {i}
    /\ \E readable \in BOOLEAN :
        /\ is_corrupted' = FlagAfterExport(is_corrupted, readable)
        /\ corrupted_export' =
              IF readable THEN corrupted_export ELSE corrupted_export \cup {i}
    /\ NextIndex("return")
    /\ UNCHANGED numData
    /\ UNCHANGED <<runs, reprocess, geometry, new_geometry, geometry_before,
                   geoloc_saved, bands, ncep, wind, corrupted_doppler, i_ref, ret_flag>>

\* line 359
Return ==
    /\ pc = "return"
    /\ ret_flag' = ~is_corrupted
    /\ pc' = "returned"
    /\ UNCHANGED numData
    /\ UNCHANGED <<i, runs, reprocess, geometry, new_geometry, geometry_before,
                   geoloc_saved, bands, ncep, wind, is_corrupted, corrupted_doppler,
                   corrupted_export, touched, exported, i_ref>>

Init ==
    /\ pc = "idle"
    /\ i = 0
    /\ runs = 0
    /\ reprocess = FALSE
    /\ geometry \in Polygons
    /\ new_geometry = {}
    /\ geometry_before = geometry
    /\ geoloc_saved = FALSE
    /\ bands = [s \in Swaths |-> {}]
    /\ ncep = FALSE
    /\ wind = FALSE
    /\ is_corrupted = FALSE
    /\ corrupted_doppler = {}
    /\ corrupted_export = {}
    /\ touched = {}
    /\ exported = {}
    /\ i_ref = 0
    /\ ret_flag = FALSE
    /\ RefIdle
    /\ BiasIdle
    /\ dc_offset = F(0)
    /\ JumpIdle
    /\ BorderIdle

Next ==
    \/ Start
    \/ Stitch
    \/ CheckGeometry
    \/ Doppler
    \/ Land1
    \/ Ref1
    \/ Land2
    \/ Geocode
    \/ Jumps
    \/ Correct
    \/ Export
    \/ Return

Spec == Init /\ [][Next]_vars

----------------------------------------------------------------------------
(* Reference subswath, lines 201-227 *)

NPix == 2
Pixels == 1 .. NPix

\* (band == 1).sum()
CountLand(band) == Cardinality({p \in DOMAIN band : band[p] = 1})

\* np.argmax: the first index holding the maximum
ArgMax(n) ==
    CHOOSE k \in Swaths :
        /\ \A s \in Swaths : n[s] <= n[k]
        /\ \A s \in Swaths : s < k => n[s] < n[k]

\* the selection without its fallback
SelectRef_argmax(n) == ArgMax(n)

\* lines 211-214 and 224-227
SelectRef(n) ==
    IF SumSeq([k \in 1 .. n_subswaths |-> n[k - 1]]) /= 0
        THEN ArgMax(n)
        ELSE n_subswaths \div 2

\* lines 202-210, one iteration (numberOfLandPixels was zeroed at line 201)
CountLand1 ==
    /\ pc = "count1"
    /\ numberOfLandPixels' =
          [numberOfLandPixels EXCEPT ![i] = CountLand(valid_land_doppler[i])]
    /\ NextIndex("select1")
    /\ UNCHANGED <<i_ref, valid_land_doppler, i_ref_first>>
    /\ UNCHANGED <<pipeData, biasData, dc_offset, jumpData, borderData>>

\* lines 211-214
SelectRef1 ==
    /\ pc = "select1"
    /\ i_ref' = SelectRef(numberOfLandPixels)
    /\ i_ref_first' = i_ref'
    /\ pc' = "count2"
    /\ UNCHANGED <<i, valid_land_doppler, numberOfLandPixels>>
    /\ UNCHANGED <<pipeData, biasData, dc_offset, jumpData, borderData>>

\* lines 221-223, one iteration; line 221 zeroes the array before the first
CountLand2 ==
    /\ pc = "count2"
    /\ numberOfLandPixels' =
          [(IF i = 0 THEN Zeros ELSE numberOfLandPixels)
              EXCEPT ![i] = CountLand(valid_land_doppler[i])]
    /\ NextIndex("select2")
    /\ UNCHANGED <<i_ref, valid_land_doppler, i_ref_first>>
    /\ UNCHANGED <<pipeData, biasData, dc_offset, jumpData, borderData>>

\* lines 224-227
SelectRef2 ==
    /\ pc = "select2"
    /\ i_ref' = SelectRef(numberOfLandPixels)
    /\ pc' = "selected"
    /\ UNCHANGED <<i, valid_land_doppler, numberOfLandPixels, i_ref_first>>
    /\ UNCHANGED <<pipeData, biasData, dc_offset, jumpData, borderData>>

InitRef ==
    /\ pc = "count1"
    /\ i = 0
    /\ i_ref = 0
    /\ valid_land_doppler \in [Swaths -> [Pixels -> {0, 1}]]
    /\ numberOfLandPixels = Zeros
    /\ i_ref_first = 0
    /\ PipeIdle
    /\ BiasIdle
    /\ dc_offset = F(0)
    /\ JumpIdle
    /\ BorderIdle

NextRef ==
    \/ CountLand1
    \/ SelectRef1
    \/ CountLand2
    \/ SelectRef2

SpecRef == InitRef /\ [][NextRef]_vars

----------------------------------------------------------------------------
(* Bias offset and corrected band, lines 228-231 and 254-259 *)

\* pixel values of the bands dc_std and raw_fdg, and values of fdg_jumps[i]
\* for i /= i_ref (fdg_jumps[i_ref] is 0, line 251)
BandVals == {NaN, F(0), F(1)}
JumpVals == {-1, 1}

\* np.argwhere(landmask): the pixels with valid_land_doppler == 1, in order
LandPixels(land) ==
    SelectSeq([p \in 1 .. Len(land) |-> p], LAMBDA p : land[p] = 1)

\* band[mask]
Take(band, idx) == [k \in 1 .. Len(idx) |-> band[idx[k]]]

\* the finite entries of a sequence of (integer-valued) floats
FiniteNums(xs) ==
    LET fin == SelectSeq(xs, LAMBDA v : ~v.nan)
    IN  [k \in 1 .. Len(fin) |-> fin[k].num]

RECURSIVE Insert(_, _)
Insert(x, s) ==
    IF s = <<>> THEN <<x>>
    ELSE IF x <= Head(s) THEN <<x>> \o s
    ELSE <<Head(s)>> \o Insert(x, Tail(s))

RECURSIVE Sort(_)
Sort(s) == IF s = <<>> THEN <<>> ELSE Insert(Head(s), Sort(Tail(s)))

\* twice np.nanmedian of a non-empty sequence of integers
Median2(t) ==
    LET n == Len(t)
        u == Sort(t)
    IN  IF n % 2 = 1 THEN 2 * u[(n + 1) \div 2]
                     ELSE u[n \div 2] + u[n \div 2 + 1]

\* line 230-231: x <= np.nanmedian(xs) + 2 * np.nanstd(xs), False when x or
\* the threshold is NaN.  With t the finite xs, n = len(t), S = sum(t),
\* Q = sum(t**2): std**2 = (n*Q - S*S) / n**2, so for d = 2*x - 2*median
\* the test is d <= 0 or (d*n)**2 <= 16 * (n*Q - S*S).
WithinThreshold(x, xs) ==
    LET t == FiniteNums(xs)
        n == Len(t)
        S == SumSeq(t)
        Q == SumSeq([k \in 1 .. n |-> t[k] * t[k]])
        d == 2 * x.num - Median2(t)
    IN  /\ ~x.nan
        /\ n > 0
        /\ \/ d <= 0
           \/ d * d * n * n <= 16 * (n * Q - S * S)

\* the land pixels kept by dc_std <= std_thres (lines 228-231)
RetainedPixels(land, dc_std) ==
    LET idx == LandPixels(land)
        std == Take(dc_std, idx)
    IN  SelectSeq(idx, LAMBDA p : WithinThreshold(dc_std[p], std))

\* a mean that reads 0 on an empty sample
NanMean_zero(xs) ==
    LET t == FiniteNums(xs)
    IN  IF t = <<>> THEN F(0) ELSE Ratio(SumSeq(t), Len(t))

\* np.nanmean: NaN when no entry is finite
NanMean(xs) ==
    LET t == FiniteNums(xs)
    IN  IF t = <<>> THEN NaN ELSE Ratio(SumSeq(t), Len(t))

\* lines 228-231
DcOffset(land, dc_std, raw) ==
    NanMean(Take(raw, RetainedPixels(land, dc_std)))

\* line 255: raw_fdg - fdg_jumps[i] - dc_offset
CorrectedBand(raw, j, off) ==
    [p \in DOMAIN raw |-> Sub(Sub(raw[p], F(j)), off)]

\* lines 228-231
Offset ==
    /\ pc = "offset"
    /\ dc_offset' = DcOffset(land_ref, dc_std_ref, raw_ref)
    /\ retained' = RetainedPixels(land_ref, dc_std_ref)
    /\ pc' = "correct_band"
    /\ i' = 0
    /\ UNCHANGED <<i_ref, land_ref, dc_std_ref, raw_ref, raw_fdg, jump, fdg>>
    /\ UNCHANGED <<pipeData, refData, jumpData, borderData>>

\* lines 254-259, the iteration for one index i.  An iteration reads only
\* swath_data[i], fdg_jumps[i] and dc_offset, none of which another
\* iteration writes, so each is taken from the state line 251 leaves.
CorrectBand ==
    /\ pc = "correct_band"
    /\ \E s \in Swaths, band \in [Pixels -> BandVals], j \in JumpVals :
        /\ i' = s
        /\ raw_fdg' = IF s = i_ref THEN raw_ref ELSE band
        /\ jump' = IF s = i_ref THEN 0 ELSE j
    /\ fdg' = CorrectedBand(raw_fdg', jump', dc_offset)
    /\ pc' = "corrected"
    /\ UNCHANGED <<i_ref, land_ref, dc_std_ref, raw_ref, retained, dc_offset>>
    /\ UNCHANGED <<pipeData, refData, jumpData, borderData>>

InitBias ==
    /\ pc = "offset"
    /\ i = 0
    /\ i_ref \in Swaths
    /\ land_ref \in [Pixels -> {0, 1}]
    /\ dc_std_ref \in [Pixels -> BandVals]
    /\ raw_ref \in [Pixels -> BandVals]
    /\ retained = <<>>
    /\ raw_fdg = <<>>
    /\ jump = 0
    /\ fdg = <<>>
    /\ dc_offset = F(0)
    /\ PipeIdle
    /\ RefIdle
    /\ JumpIdle
    /\ BorderIdle

NextBias ==
    \/ Offset
    \/ CorrectBand

SpecBias == InitBias /\ [][NextBias]_vars

----------------------------------------------------------------------------
(* Jump accumulation and correction of uniform fields, lines 240-259 *)

MaxLevel == 1

\* the cumulative sum taken as the array itself
CumSum_none(a) == a

\* np.cumsum
CumSum(a) ==
    [s \in Swaths |-> SumSeq([k \in 1 .. s + 1 |-> a[k - 1]])]

\* the jumps referred to subswath 0
RefJumps_first(a, r) == [s \in Swaths |-> a[s] - a[0]]

\* line 251: fdg_jumps -= fdg_jumps[i_ref]
RefJumps(a, r) == [s \in Swaths |-> a[s] - a[r]]

\* lines 241-249, one iteration: the estimate for the pair (i-1, i) is the
\* median of the bin centres at the smoothed histogram maximum, a finite
\* number fixed by the geocoded fields
JumpEstimate ==
    /\ pc = "jump_est"
    /\ \E e \in -MaxLevel .. MaxLevel :
        /\ fdg_jumps' = [fdg_jumps EXCEPT ![i] = e]
        /\ jump_est' = [jump_est EXCEPT ![i] = e]
    /\ IF i + 1 < n_subswaths
          THEN /\ i' = i + 1
               /\ pc' = pc
          ELSE /\ i' = 0
               /\ pc' = "accumulate"
    /\ UNCHANGED <<i_ref, dc_offset, raw_level, fdg_level>>
    /\ UNCHANGED <<pipeData, refData, biasData, borderData>>

\* lines 250-251
Accumulate ==
    /\ pc = "accumulate"
    /\ fdg_jumps' = RefJumps(CumSum(fdg_jumps), i_ref)
    /\ pc' = "correct_level"
    /\ UNCHANGED <<i, i_ref, dc_offset, raw_level, jump_est, fdg_level>>
    /\ UNCHANGED <<pipeData, refData, biasData, borderData>>

\* lines 254-259, the five iterations, on fields with the same value in
\* every pixel; fdg_level[s + 1] is the value of the fdg band of subswath s
CorrectLevel ==
    /\ pc = "correct_level"
    /\ fdg_level' =
          [k \in 1 .. n_subswaths |->
              CorrectedBand(<<F(raw_level[k - 1])>>, fdg_jumps[k - 1],
                            dc_offset)[1]]
    /\ pc' = "jump_done"
    /\ UNCHANGED <<i, i_ref, dc_offset, raw_level, jump_est, fdg_jumps>>
    /\ UNCHANGED <<pipeData, refData, biasData, borderData>>

InitJump ==
    /\ pc = "jump_est"
    /\ i = 1
    /\ i_ref \in Swaths
    /\ dc_offset \in {NaN, Ratio(1, 2)}
    /\ raw_level \in [Swaths -> 0 .. MaxLevel]
    /\ jump_est = Zeros
    /\ fdg_jumps = Zeros
    /\ fdg_level = <<>>
    /\ PipeIdle
    /\ RefIdle
    /\ BiasIdle
    /\ BorderIdle

NextJump ==
    \/ JumpEstimate
    \/ Accumulate
    \/ CorrectLevel

SpecJump == InitJump /\ [][NextJump]_vars

----------------------------------------------------------------------------
(* Footprint border, lines 68-108 *)

num_border_points == 10
MaxDim == 32

\* the stride taken from the dimension size itself
Step_plain(n) == Max(1, (n - 1) \div num_border_points)

\* lines 76-77: max(1, (n/2*2-1) / num_border_points), integer division
Step(n) == Max(1, ((n \div 2) * 2 - 1) \div num_border_points)

\* the indices of the slice 0:-1:step of an axis of length n
Slice(n, step) ==
    [k \in 1 .. ((n - 1 + step - 1) \div step) |-> (k - 1) * step]

\* a flip that keeps the order
Flipud_none(s) == s

\* np.flipud of a one-dimensional array
Flipud(s) == Reverse(s)

\* lines 78-85: the grid points <<subswath, row, column>> of the four edges
AzLeft(s) ==
    LET rows == Slice(lon_shape[s][1], astep[s])
    IN  [k \in 1 .. Len(rows) |-> <<s, rows[k], 0>>]
AzRight(s) ==
    LET rows == Slice(lon_shape[s][1], astep[s])
    IN  [k \in 1 .. Len(rows) |-> <<s, rows[k], lon_shape[s][2] - 1>>]
RaUpper(s) ==
    LET cols == Slice(lon_shape[s][2], rstep[s])
    IN  [k \in 1 .. Len(cols) |-> <<s, lon_shape[s][1] - 1, cols[k]>>]
RaLower(s) ==
    LET cols == Slice(lon_shape[s][2], rstep[s])
    IN  [k \in 1 .. Len(cols) |-> <<s, 0, cols[k]>>]

\* lines 86-92 (lons) and 98-104 (lats): the same traversal of the two grids
Concatenate ==
    AzLeft(0) \o RaUpper(0) \o RaUpper(1) \o RaUpper(2) \o RaUpper(3)
        \o RaUpper(4) \o Flipud(AzRight(4)) \o Flipud(RaLower(4))
        \o Flipud(RaLower(3)) \o Flipud(RaLower(2)) \o Flipud(RaLower(1))
        \o Flipud(RaLower(0))

\* lines 72-85, one iteration, for a grid with dimensions taken from dims
ReadGrid(dims, next_pc) ==
    /\ \E rows \in dims, cols \in dims :
        /\ lon_shape' = (i :> <<rows, cols>>) @@ lon_shape
        /\ astep' = (i :> Step(rows)) @@ astep
        /\ rstep' = (i :> Step(cols)) @@ rstep
    /\ NextIndex(next_pc)
    /\ UNCHANGED <<i_ref, lons, lats>>
    /\ UNCHANGED <<pipeData, refData, biasData, dc_offset, jumpData>>

\* lines 72-85 for one subswath, any grid of up to MaxDim rows and columns
ReadAnyGrid ==
    /\ pc = "read_grid"
    /\ lon_shape = <<>>
    /\ ReadGrid(1 .. MaxDim, "read_grid")

\* lines 70-85, one iteration
ReadSwath ==
    /\ pc = "read_swath"
    /\ ReadGrid({1, 2, MaxDim}, "concatenate")

\* lines 86-108
Stitched ==
    /\ pc = "concatenate"
    /\ lons' = Concatenate
    /\ lats' = Concatenate
    /\ pc' = "stitched"
    /\ UNCHANGED <<i, i_ref, lon_shape, astep, rstep>>
    /\ UNCHANGED <<pipeData, refData, biasData, dc_offset, jumpData>>

InitBorder ==
    /\ i_ref = 0
    /\ BorderIdle
    /\ PipeIdle
    /\ RefIdle
    /\ BiasIdle
    /\ dc_offset = F(0)
    /\ JumpIdle

InitStride ==
    /\ pc = "read_grid"
    /\ i \in Swaths
    /\ InitBorder

NextStride == ReadAnyGrid

SpecStride == InitStride /\ [][NextStride]_vars

InitStitch ==
    /\ pc = "read_swath"
    /\ i = 0
    /\ InitBorder

NextStitch ==
    \/ ReadSwath
    \/ Stitched

SpecBorder == InitStitch /\ [][NextStitch]_vars

----------------------------------------------------------------------------
(* Claims about the control flow, checked under Spec *)

\* C1: in every run that reaches the final return, the returned flag is
\* False if any subswath was marked corrupted at any stage (in the
\* Doppler-derivation loop or after the export-stage reprojection).
C1_FlagFalseIfAnyCorrupted ==
    (pc = "returned" /\ (corrupted_doppler \cup corrupted_export) /= {})
        => ret_flag = FALSE

\* a run has returned from line 359 after subswath 0 failed its reprojection
\* and subswath 4 passed it
C1_Witness ==
    /\ pc = "returned"
    /\ 0 \in corrupted_export
    /\ 4 \notin corrupted_export
    /\ ret_flag = FALSE

\* C2: when exactly one subswath is marked corrupted in the Doppler step, the
\* run still completes for the other four: each gets its bias-corrected
\* Doppler band and its radial-velocity band and is exported.
C2_OtherFourCompleted ==
    \A k \in Swaths :
        (pc \in Ended /\ corrupted_doppler = {k})
            => /\ pc = "returned"
               /\ \A s \in Swaths \ {k} :
                    /\ {"fdg", "Ur"} \subseteq bands[s]
                    /\ s \in exported

\* C3: a run whose stitched polygon equals the stored geometry performs no
\* geoloc.save(), with reprocess False or True; a save happens only in a run
\* where the stitched polygon differs from the stored one.
C3_SaveOnlyIfPolygonDiffers ==
    geoloc_saved => geometry_before /= new_geometry

\* a second run with reprocess = True got past the geometry check with a
\* polygon equal to the stored one, and did not save
C3_Witness ==
    /\ runs = 2
    /\ reprocess
    /\ pc = "doppler"
    /\ new_geometry = geometry_before
    /\ ~geoloc_saved

\* C8: once a subswath is marked corrupted in the Doppler step, no later step
\* operates on it: no land-pixel count, reference selection, jump estimation
\* or correction touches it, and it is never exported.
C8_CorruptedNeverTouched ==
    \A k \in corrupted_doppler :
        /\ \A t \in touched : t[2] /= k
        /\ k \notin exported

----------------------------------------------------------------------------
(* Claims about the reference selection, checked under SpecRef *)

LandCount(s) == Cardinality({p \in Pixels : valid_land_doppler[s][p] = 1})

\* C7: the reference index is the index of a subswath with the largest
\* count of land pixels (flag = 1) whenever some count is non-zero, and is
\* the middle index 2 whenever all five counts are zero; both copies of the
\* selection code yield the same index.
C7_ReferenceSelection ==
    pc = "selected" =>
        /\ (\E s \in Swaths : LandCount(s) /= 0)
              => \A s \in Swaths : LandCount(s) <= LandCount(i_ref)
        /\ (\A s \in Swaths : LandCount(s) = 0) => i_ref = 2
        /\ i_ref = i_ref_first

\* the all-zero fallback was taken
C7_Witness ==
    /\ pc = "selected"
    /\ \A s \in Swaths : LandCount(s) = 0
    /\ i_ref = 2
    /\ i_ref_first = 2

----------------------------------------------------------------------------
(* Claims about the bias offset, checked under SpecBias *)

\* C6: whenever the set of land pixels retained by the dc_std threshold on
\* the reference subswath is empty (which includes a reference subswath with
\* no land pixel), dc_offset is NaN, no later step replaces it by a finite
\* value, and every pixel of the corrected fdg band of every subswath is NaN.
C6_EmptySampleIsNaN ==
    (/\ pc \in {"correct_band", "corrected"}
     /\ \/ \A p \in Pixels : land_ref[p] /= 1
        \/ retained = <<>>)
        => /\ IsNaN(dc_offset)
           /\ \A p \in DOMAIN fdg : IsNaN(fdg[p])

\* the reference subswath has land pixels, none of them retained, and a
\* subswath with finite raw_fdg pixels and a non-zero jump has been corrected
C6_Witness ==
    /\ pc = "corrected"
    /\ \E p \in Pixels : land_ref[p] = 1
    /\ retained = <<>>
    /\ \A p \in Pixels : ~IsNaN(raw_fdg[p])
    /\ jump /= 0
    /\ IsNaN(dc_offset)
    /\ \A p \in Pixels : IsNaN(fdg[p])

----------------------------------------------------------------------------
(* Claims about the jump correction, checked under SpecJump *)

\* C4: after the per-pair estimates are accumulated by cumulative sum and the
\* reference subswath's cumulative value is subtracted, fdg_jumps[i_ref] is 0
\* for every reference index and every combination of estimates.
C4_ReferenceJumpIsZero ==
    pc \in {"correct_level", "jump_done"} => fdg_jumps[i_ref] = 0

\* the reference is subswath 3 and the estimates up to it do not cancel
C4_Witness ==
    /\ pc = "correct_level"
    /\ i_ref = 3
    /\ jump_est[1] + jump_est[2] + jump_est[3] /= 0
    /\ fdg_jumps[0] /= 0
    /\ fdg_jumps[i_ref] = 0

\* the estimate of each pair is the difference of the two field values
JumpsMatchLevels ==
    \A k \in 1 .. n_subswaths - 1 :
        jump_est[k] = raw_level[k] - raw_level[k - 1]

\* C5: for five subswaths whose raw_fdg fields are a common constant plus a
\* per-swath bias, with each pair's jump estimate equal to the difference of
\* the biases and a finite dc_offset, the corrected field
\* raw_fdg - jump[i] - dc_offset has the same value in all five subswaths,
\* whichever subswath is the reference.
C5_CorrectedLevelsAgree ==
    (pc = "jump_done" /\ JumpsMatchLevels /\ ~IsNaN(dc_offset))
        => \A s, t \in 1 .. n_subswaths :
              /\ ~IsNaN(fdg_level[s])
              /\ fdg_level[s] = fdg_level[t]

\* biased fields, reference subswath 2, all five corrected
C5_Witness ==
    /\ pc = "jump_done"
    /\ JumpsMatchLevels
    /\ ~IsNaN(dc_offset)
    /\ i_ref = 2
    /\ raw_level[0] /= raw_level[1]
    /\ raw_level[3] /= raw_level[4]
    /\ \A s \in 1 .. n_subswaths : fdg_level[s] = fdg_level[1]

----------------------------------------------------------------------------
(* Claims about the border sampling, checked under SpecStride *)

\* C9 as stated: for every grid dimension size n >= 1 the stride equals
\* max(1, (n - 1) div 10).
C9_StrideOfSize ==
    \A s \in DOMAIN lon_shape :
        /\ astep[s] = Max(1, (lon_shape[s][1] - 1) \div 10)
        /\ rstep[s] = Max(1, (lon_shape[s][2] - 1) \div 10)

\* the size rounded down to an even number
EvenBelow(n) == n - (n % 2)

\* C9 as amended: for every grid dimension size n >= 1 the stride equals
\* max(1, (m - 1) div 10) with m the size rounded down to an even number;
\* this is max(1, (n - 1) div 10) unless n is odd, n >= 21 and n - 1 is a
\* multiple of 10.
C9_StrideOfEvenSize ==
    \A s \in DOMAIN lon_shape :
        LET rows == lon_shape[s][1]
            cols == lon_shape[s][2]
        IN  /\ astep[s] = Max(1, (EvenBelow(rows) - 1) \div 10)
            /\ rstep[s] = Max(1, (EvenBelow(cols) - 1) \div 10)
            /\ (rows % 2 = 0 \/ rows < 21 \/ (rows - 1) % 10 /= 0)
                  => astep[s] = Max(1, (rows - 1) \div 10)
            /\ (cols % 2 = 0 \/ cols < 21 \/ (cols - 1) % 10 /= 0)
                  => rstep[s] = Max(1, (cols - 1) \div 10)

\* a grid of 21 rows is sampled with stride 1, and one of 22 columns with 2
C9_Witness ==
    \E s \in DOMAIN lon_shape :
        /\ lon_shape[s] = <<21, 22>>
        /\ astep[s] = 1
        /\ rstep[s] = 2

----------------------------------------------------------------------------
(* Claims about the stitched ring, checked under SpecBorder *)

\* C10: for five geolocation grids with at least 2 rows and 2 columns each,
\* the vertex sequence ends on the grid point it starts on, row 0 and column
\* 0 of subswath 0, for the longitude and the latitude sequence alike.
C10_RingIsClosed ==
    (/\ pc = "stitched"
     /\ \A s \in Swaths : lon_shape[s][1] >= 2 /\ lon_shape[s][2] >= 2)
        => /\ Len(lons) >= 2
           /\ lons[1] = <<0, 0, 0>>
           /\ lons[Len(lons)] = <<0, 0, 0>>
           /\ Len(lats) >= 2
           /\ lats[1] = <<0, 0, 0>>
           /\ lats[Len(lats)] = <<0, 0, 0>>

\* five grids of MaxDim rows and columns, sampled with a stride above 1
C10_Witness ==
    /\ pc = "stitched"
    /\ \A s \in Swaths : lon_shape[s] = <<MaxDim, MaxDim>>
    /\ astep[0] > 1
    /\ Len(lons) > 12
    /\ lons[1] = lons[Len(lons)]
    /\ lons[2] /= lons[Len(lons) - 1]

=============================================================================
